---- MODULE Spec2Model ----
(***************************************************************************)
(* TaxoFetch (src/taxofetch.py): resolution of organism names against the  *)
(* merged RefSeq / GenBank assembly summaries, ranking of the candidate    *)
(* assemblies, and the report / download script written from the result.   *)
(*                                                                         *)
(* A DataFrame is a sequence of records (rows, in index order).  A text    *)
(* value is a TLA+ string; Chars gives its characters where the code looks *)
(* inside a string (split, regular expression, string comparison).  The    *)
(* float nan that pandas stores for a missing field is the value NaN.      *)
(***************************************************************************)
EXTENDS Integers, Sequences, FiniteSets, TLC

\* Bounds of the model.
MaxRows == 2
MaxNames == 2
MaxGroup == 2
MaxRerunNames == 1

\* pandas' missing value (float nan).  read_csv never yields the text "NaN"
\* (it is one of its NA markers), so the token cannot clash with a parsed string.
NaN == "NaN"

isna(v) == v = NaN

\* The characters of every text the model draws.
Chars(s) ==
  CASE s = "Zea mays" -> <<"Z", "e", "a", " ", "m", "a", "y", "s">>
    [] s = "Zea luxurians" -> <<"Z", "e", "a", " ", "l", "u", "x", "u", "r", "i", "a", "n", "s">>
    [] s = "cf. Zea mays" -> <<"c", "f", ".", " ", "Z", "e", "a", " ", "m", "a", "y", "s">>
    [] s = "Ca sp" -> <<"C", "a", " ", "s", "p">>
    [] s = "Ze. mays" -> <<"Z", "e", ".", " ", "m", "a", "y", "s">>
    [] s = "(Zea mays" -> <<"(", "Z", "e", "a", " ", "m", "a", "y", "s">>
    [] s = "Ca x" -> <<"C", "a", " ", "x">>
    [] s = "GCF_1" -> <<"G", "C", "F", "_", "1">>
    [] s = "GCA_1" -> <<"G", "C", "A", "_", "1">>
    [] s = "GCA_2" -> <<"G", "C", "A", "_", "2">>

\* Code points of the characters of the accessions (Python compares str by code point).
Ord(c) ==
  CASE c = "1" -> 49 [] c = "2" -> 50 [] c = "A" -> 65 [] c = "C" -> 67
    [] c = "F" -> 70 [] c = "G" -> 71 [] c = "_" -> 95

\* Python's str < str: lexicographic by code point, a proper prefix is smaller.
RECURSIVE StrLess(_, _)
StrLess(a, b) ==
  IF Len(b) = 0 THEN FALSE
  ELSE IF Len(a) = 0 THEN TRUE
  ELSE IF Ord(Head(a)) # Ord(Head(b)) THEN Ord(Head(a)) < Ord(Head(b))
  ELSE StrLess(Tail(a), Tail(b))

----------------------------------------------------------------------------
(* download_and_load_summary *)

\* The texts pandas.read_csv turns into nan (its default na_values; the call
\* on line 63 keeps them).  The lower-case "na" NCBI writes is not one of them.
NA_VALUES ==
  {"", "#N/A", "#N/A N/A", "#NA", "-1.#IND", "-1.#QNAN", "-NaN", "-nan",
   "1.#IND", "1.#QNAN", "<NA>", "N/A", "NA", "NULL", "NaN", "None", "n/a",
   "nan", "null"}

read_field(raw) == IF raw \in NA_VALUES THEN NaN ELSE raw

upper(db_source) ==
  CASE db_source = "refseq" -> "REFSEQ" [] db_source = "genbank" -> "GENBANK"

\* pd.read_csv(..., dtype=str) followed by the data_source tag.
read_csv_tagged(rows, db_source) ==
  [i \in 1..Len(rows) |->
     [organism_name      |-> read_field(rows[i].organism_name),
      assembly_accession |-> read_field(rows[i].assembly_accession),
      refseq_category    |-> read_field(rows[i].refseq_category),
      assembly_level     |-> read_field(rows[i].assembly_level),
      ftp_path           |-> read_field(rows[i].ftp_path),
      data_source        |-> upper(db_source)]]

NoFile == [ok |-> FALSE, rows |-> <<>>]

\* The local summary file after the optional removal and the download attempt:
\* a failed download (remote.ok = FALSE) leaves no file.
local_after_fetch(local, remote_file, force_download) ==
  LET kept == IF force_download /\ local.ok THEN NoFile ELSE local
  IN  IF ~kept.ok THEN remote_file ELSE kept

\* Faulty variant: the file is parsed only when it has just been downloaded.
download_and_load_summary_fresh_only(local, remote_file, db_source, force_download) ==
  IF local.ok \/ ~remote_file.ok THEN <<>> ELSE read_csv_tagged(remote_file.rows, db_source)

\* The frame returned: empty when the download failed, else the parsed file.
download_and_load_summary(local, remote_file, db_source, force_download) ==
  LET file == local_after_fetch(local, remote_file, force_download)
  IN  IF ~file.ok THEN <<>> ELSE read_csv_tagged(file.rows, db_source)

----------------------------------------------------------------------------
(* rank_assemblies *)

cat_map(v) ==
  CASE v = "reference genome" -> 3
    [] v = "representative genome" -> 2
    [] v = "na" -> 1
    [] OTHER -> 0

level_map(v) ==
  CASE v = "Complete Genome" -> 4
    [] v = "Chromosome" -> 3
    [] v = "Scaffold" -> 2
    [] v = "Contig" -> 1
    [] OTHER -> 0

source_map(v) ==
  CASE v = "REFSEQ" -> 2
    [] v = "GENBANK" -> 1
    [] OTHER -> 0

cat_score(r) == cat_map(r.refseq_category)
lvl_score(r) == level_map(r.assembly_level)
src_score(r) == source_map(r.data_source)

\* Descending order of the accession column; nan goes last (na_position='last').
acc_before(a, b) ==
  IF isna(a.assembly_accession) THEN FALSE
  ELSE IF isna(b.assembly_accession) THEN TRUE
  ELSE StrLess(Chars(b.assembly_accession), Chars(a.assembly_accession))

\* Faulty variant: the source is the first sort key.
sorts_before_source_first(a, b) ==
  \/ src_score(a) > src_score(b)
  \/ /\ src_score(a) = src_score(b)
     /\ \/ cat_score(a) > cat_score(b)
        \/ /\ cat_score(a) = cat_score(b)
           /\ \/ lvl_score(a) > lvl_score(b)
              \/ /\ lvl_score(a) = lvl_score(b)
                 /\ acc_before(a, b)

\* a sorts strictly before b under by=[cat, lvl, src, accession], all descending.
sorts_before(a, b) ==
  \/ cat_score(a) > cat_score(b)
  \/ /\ cat_score(a) = cat_score(b)
     /\ \/ lvl_score(a) > lvl_score(b)
        \/ /\ lvl_score(a) = lvl_score(b)
           /\ \/ src_score(a) > src_score(b)
              \/ /\ src_score(a) = src_score(b)
                 /\ acc_before(a, b)

\* Insert x into a sorted frame behind every row it does not strictly precede.
RECURSIVE insert_sorted(_, _)
insert_sorted(sorted, x) ==
  IF sorted = <<>> THEN <<x>>
  ELSE IF sorts_before(x, Head(sorted)) THEN <<x>> \o sorted
  ELSE <<Head(sorted)>> \o insert_sorted(Tail(sorted), x)

\* DataFrame.sort_values on several keys is a stable sort: rows equal on every
\* key keep their order.
RECURSIVE sort_values(_)
sort_values(df) ==
  IF df = <<>> THEN <<>>
  ELSE insert_sorted(sort_values(SubSeq(df, 1, Len(df) - 1)), df[Len(df)])

rank_assemblies(group_df) == sort_values(group_df)[1]

----------------------------------------------------------------------------
(* The environment: what the remote catalogs and the input file hold *)

\* Lines of an assembly summary as they stand in the file (before read_csv).
RawRows ==
  { [organism_name |-> "Zea mays", assembly_accession |-> "GCF_1",
     refseq_category |-> "representative genome", assembly_level |-> "Chromosome",
     ftp_path |-> "https://ftp/GCF_1"],
    [organism_name |-> "Zea mays", assembly_accession |-> "GCF_1",
     refseq_category |-> "representative genome", assembly_level |-> "Chromosome",
     ftp_path |-> "https://ftp/GCF_1.2"],
    [organism_name |-> "Zea luxurians", assembly_accession |-> "GCA_2",
     refseq_category |-> "reference genome", assembly_level |-> "Complete Genome",
     ftp_path |-> ""],
    [organism_name |-> "cf. Zea mays", assembly_accession |-> "GCA_1",
     refseq_category |-> "na", assembly_level |-> "Scaffold",
     ftp_path |-> "na"],
    [organism_name |-> "Ca sp", assembly_accession |-> "GCA_2",
     refseq_category |-> "", assembly_level |-> "Contig",
     ftp_path |-> "N/A"] }

\* Non-empty, stripped lines of the input file.
Names == {"Zea mays", "Ze. mays", "(Zea mays", "Ca x"}

SeqsUpTo(S, n) == UNION {[1..k -> S] : k \in 0..n}

\* A summary on the server: missing (the download raises) or a file of rows,
\* no line of which stands twice in it.
RemoteFiles(n) ==
  {NoFile} \cup
  {[ok |-> TRUE, rows |-> rs] :
     rs \in {q \in SeqsUpTo(RawRows, n) :
               \A i, j \in 1..Len(q) : q[i] = q[j] => i = j}}

Sources == {"refseq", "genbank", "both"}

\* The db_source values main asks for, in the order it asks.
requested(src) ==
  (IF src \in {"refseq", "both"} THEN <<"refseq">> ELSE <<>>)
    \o (IF src \in {"genbank", "both"} THEN <<"genbank">> ELSE <<>>)

InSeq(x, s) == \E i \in 1..Len(s) : s[i] = x

----------------------------------------------------------------------------
(* main *)

VARIABLES
  source,         \* args.source
  clean,          \* args.clean
  remote,         \* the summaries on the server, by db_source
  input_file,     \* the names in the input file
  local,          \* the summary files in the working directory, by db_source
  dfs,            \* the frames loaded
  full_df,        \* the merged frame
  target_species, \* the names read
  idx,            \* position of the loop over target_species
  matches,        \* the loop's exact-match frame
  genus_matches,  \* the loop's genus-fallback frame
  group_df,       \* the frame rank_assemblies was called with last
  best,           \* the row rank_assemblies returned last (none: the empty sequence)
  to_download,    \* the outcomes
  found_count,    \* the count the report step prints
  report,         \* lines of the report file after its header
  script,         \* download entries of the script file
  pc,             \* where main is
  run,            \* which invocation of the program this is
  prev            \* to_download of the invocation before

vars == <<source, clean, remote, input_file, local, dfs, full_df, target_species,
          idx, matches, genus_matches, group_df, best, to_download, found_count, report,
          script, pc, run, prev>>

empty(df) == Len(df) = 0

\* Faulty variant: any() in place of all().
no_summary_data_any(frames) ==
  Len(frames) = 0 \/ \E i \in 1..Len(frames) : empty(frames[i])

\* Line 120: not dfs or all(d.empty for d in dfs).
no_summary_data(frames) ==
  Len(frames) = 0 \/ \A i \in 1..Len(frames) : empty(frames[i])

\* pd.concat(dfs, ignore_index=True).
RECURSIVE pd_concat(_)
pd_concat(frames) ==
  IF frames = <<>> THEN <<>> ELSE Head(frames) \o pd_concat(Tail(frames))

\* species.split(" ")[0]: the characters before the first space.
RECURSIVE first_part(_)
first_part(cs) ==
  IF cs = <<>> \/ Head(cs) = " " THEN <<>> ELSE <<Head(cs)>> \o first_part(Tail(cs))

\* Line 152: len(parts) >= 1 and len(parts[0]) > 2.
genus_long_enough(species) == Len(first_part(Chars(species))) > 2

\* f"^{genus} ": the pattern after the anchor.
genus_pattern(species) == first_part(Chars(species)) \o <<" ">>

\* re.compile raises on a "(" that nothing closes; the model's texts hold no ")".
re_raises(pattern) == \E i \in 1..Len(pattern) : pattern[i] = "("

\* One pattern character against one text character: "." is any character
\* (the texts hold no newline); the model's other characters stand for themselves.
re_char(p, c) == p = "." \/ p = c

\* re.search of "^" + pattern: a match at position 0.
re_search_anchored(pattern, text) ==
  /\ Len(text) >= Len(pattern)
  /\ \A i \in 1..Len(pattern) : re_char(pattern[i], text[i])

\* full_df[full_df['organism_name'].str.contains(f"^{genus} ", regex=True, na=False)].
str_contains_genus(df, species) ==
  SelectSeq(df, LAMBDA r : ~isna(r.organism_name)
                           /\ re_search_anchored(genus_pattern(species), Chars(r.organism_name)))

\* Faulty variant: the first pass already matches on the genus.
exact_matches_by_genus(df, species) ==
  SelectSeq(df, LAMBDA r : ~isna(r.organism_name)
                           /\ re_search_anchored(genus_pattern(species), Chars(r.organism_name)))

\* full_df[full_df['organism_name'] == species]; nan equals no string.
exact_matches(df, species) ==
  SelectSeq(df, LAMBDA r : ~isna(r.organism_name) /\ r.organism_name = species)

found_item(species, row, status) ==
  [name |-> species, source |-> row.data_source,
   accession |-> row.assembly_accession, url |-> row.ftp_path,
   status |-> status, level |-> row.assembly_level]

not_found_item(species) ==
  [name |-> species, source |-> "-", accession |-> "-", url |-> "N/A",
   status |-> <<"NOT_FOUND">>, level |-> "-"]

\* One pass of the loop body (lines 136-169) for one name over one frame:
\* whether re raises, what it assigns to matches and to genus_matches (none:
\* the empty sequence), the frame it ranks, and the item it appends.
loop_body(df, species) ==
  LET m == exact_matches(df, species) IN
  IF ~empty(m)
    THEN [raised |-> FALSE, matches |-> m, fallback |-> <<>>, ranked |-> <<m>>,
          items |-> <<found_item(species, rank_assemblies(m), <<"EXACT_MATCH">>)>>]
  ELSE IF ~genus_long_enough(species)
    THEN [raised |-> FALSE, matches |-> m, fallback |-> <<>>, ranked |-> <<>>,
          items |-> <<not_found_item(species)>>]
  ELSE IF re_raises(genus_pattern(species))
    THEN [raised |-> TRUE, matches |-> m, fallback |-> <<>>, ranked |-> <<>>,
          items |-> <<>>]
  ELSE LET g == str_contains_genus(df, species) IN
       IF ~empty(g)
         THEN [raised |-> FALSE, matches |-> m, fallback |-> <<g>>, ranked |-> <<g>>,
               items |-> <<found_item(species, rank_assemblies(g),
                                      <<"FALLBACK", rank_assemblies(g).organism_name>>)>>]
         ELSE [raised |-> FALSE, matches |-> m, fallback |-> <<g>>, ranked |-> <<>>,
               items |-> <<not_found_item(species)>>]

\* Line 176 / 183: item['url'] != "N/A" (nan differs from every string).
has_url(item) == item.url # "N/A"

\* found_count after the report loop.
RECURSIVE count_found(_)
count_found(items) ==
  IF items = <<>> THEN 0
  ELSE (IF has_url(Head(items)) THEN 1 ELSE 0) + count_found(Tail(items))

report_line(item) ==
  <<item.name, item.status, item.source, item.accession, item.level, item.url>>

\* os.path.basename raises TypeError on a value that is not a str.
basename_raises(url) == isna(url)

\* The script loop (lines 182-188): the entries written until the loop ends or
\* basename raises.
RECURSIVE script_loop(_)
script_loop(items) ==
  IF items = <<>> THEN [raised |-> FALSE, entries |-> <<>>]
  ELSE IF ~has_url(Head(items)) THEN script_loop(Tail(items))
  ELSE IF basename_raises(Head(items).url) THEN [raised |-> TRUE, entries |-> <<>>]
  ELSE LET rest == script_loop(Tail(items)) IN
       [raised |-> rest.raised,
        entries |-> <<[name |-> Head(items).name, source |-> Head(items).source,
                       accession |-> Head(items).accession, url |-> Head(items).url]>>
                    \o rest.entries]

\* The program starts in a fresh working directory; the input file exists
\* (line 110).  A summary that cannot be parsed gives the same empty frame as
\* one without rows.
Init ==
  /\ source \in Sources
  /\ clean = FALSE   \* the working directory is fresh: --clean finds nothing to remove
  /\ remote \in {f \in [{"refseq", "genbank"} -> RemoteFiles(MaxRows)] :
                   /\ Len(f["refseq"].rows) + Len(f["genbank"].rows) <= MaxRows
                   /\ \A s \in {"refseq", "genbank"} :
                        ~InSeq(s, requested(source)) => f[s] = NoFile}
  /\ input_file \in SeqsUpTo(Names, MaxNames)
  /\ local = [s \in {"refseq", "genbank"} |-> NoFile]
  /\ dfs = <<>>
  /\ full_df = <<>>
  /\ target_species = <<>>
  /\ idx = 1
  /\ matches = <<>>
  /\ genus_matches = <<>>
  /\ group_df = <<>>
  /\ best = <<>>
  /\ to_download = <<>>
  /\ found_count = 0
  /\ report = <<>>
  /\ script = <<>>
  /\ pc = "load"
  /\ run = 1
  /\ prev = <<>>

\* Lines 114-118: load every requested summary.
Load ==
  /\ pc = "load"
  /\ dfs' = [i \in 1..Len(requested(source)) |->
               download_and_load_summary(local[requested(source)[i]],
                                         remote[requested(source)[i]],
                                         requested(source)[i], clean)]
  /\ local' = [s \in {"refseq", "genbank"} |->
                 IF InSeq(s, requested(source))
                   THEN local_after_fetch(local[s], remote[s], clean)
                   ELSE local[s]]
  /\ pc' = "merge"
  /\ UNCHANGED <<source, clean, remote, input_file, full_df, target_species, idx,
                 matches, genus_matches, group_df, best, to_download, found_count, report, script,
                 run, prev>>

\* Lines 120-125: stop when nothing was loaded, else merge.
Merge ==
  /\ pc = "merge"
  /\ IF no_summary_data(dfs)
       THEN pc' = "exit" /\ UNCHANGED full_df
       ELSE pc' = "read" /\ full_df' = pd_concat(dfs)
  /\ UNCHANGED <<source, clean, remote, input_file, local, dfs, target_species, idx,
                 matches, genus_matches, group_df, best, to_download, found_count, report, script,
                 run, prev>>

\* Lines 128-133: read the names.
ReadInput ==
  /\ pc = "read"
  /\ target_species' = input_file
  /\ pc' = IF Len(input_file) = 0 THEN "report" ELSE "match"
  /\ UNCHANGED <<source, clean, remote, input_file, local, dfs, full_df, idx,
                 matches, genus_matches, group_df, best, to_download, found_count, report, script,
                 run, prev>>

\* Lines 135-169: one pass of the loop.
MatchStep ==
  /\ pc = "match"
  /\ LET b == loop_body(full_df, target_species[idx]) IN
       /\ matches' = b.matches
       /\ genus_matches' = IF b.fallback = <<>> THEN genus_matches ELSE b.fallback[1]
       /\ group_df' = IF b.ranked = <<>> THEN group_df ELSE b.ranked[1]
       /\ best' = IF b.ranked = <<>> THEN best ELSE <<rank_assemblies(b.ranked[1])>>
       /\ to_download' = to_download \o b.items
       /\ pc' = IF b.raised THEN "re_error"
                ELSE IF idx = Len(target_species) THEN "report" ELSE "match"
       /\ idx' = IF b.raised THEN idx ELSE idx + 1
  /\ UNCHANGED <<source, clean, remote, input_file, local, dfs, full_df,
                 target_species, found_count, report, script, run, prev>>

\* Lines 172-177: the report.
Report ==
  /\ pc = "report"
  /\ found_count' = count_found(to_download)
  /\ report' = [i \in 1..Len(to_download) |-> report_line(to_download[i])]
  /\ pc' = "script"
  /\ UNCHANGED <<source, clean, remote, input_file, local, dfs, full_df,
                 target_species, idx, matches, genus_matches, group_df, best, to_download, script,
                 run, prev>>

\* Lines 179-192: the download script.
Script ==
  /\ pc = "script"
  /\ script' = script_loop(to_download).entries
  /\ pc' = IF script_loop(to_download).raised THEN "type_error" ELSE "done"
  /\ UNCHANGED <<source, clean, remote, input_file, local, dfs, full_df,
                 target_species, idx, matches, genus_matches, group_df, best, to_download,
                 found_count, report, run, prev>>

Ended == pc \in {"exit", "re_error", "type_error", "done"}

\* The program is started again with the same arguments, server and input file;
\* the working directory keeps its files.
Rerun ==
  /\ Ended
  /\ run = 1
  /\ run' = 2
  /\ prev' = to_download
  /\ dfs' = <<>>
  /\ full_df' = <<>>
  /\ target_species' = <<>>
  /\ idx' = 1
  /\ matches' = <<>>
  /\ genus_matches' = <<>>
  /\ group_df' = <<>>
  /\ best' = <<>>
  /\ to_download' = <<>>
  /\ found_count' = 0
  /\ pc' = "load"
  /\ clean' \in BOOLEAN
  /\ UNCHANGED <<source, remote, input_file, local, report, script>>

Next ==
  \/ Load
  \/ Merge
  \/ ReadInput
  \/ MatchStep
  \/ Report
  \/ Script

Spec == Init /\ [][Next]_vars

NextRerun ==
  \/ Load
  \/ Merge
  \/ ReadInput
  \/ MatchStep
  \/ Report
  \/ Script
  \/ Rerun

\* Two runs in a row, over input files of up to MaxRerunNames names.
InitRerun == Init /\ Len(input_file) <= MaxRerunNames

SpecRerun == InitRerun /\ [][NextRerun]_vars

----------------------------------------------------------------------------
(* rank_assemblies on its own: every frame of up to MaxGroup rows *)

Categories == {"reference genome", "representative genome", "na", NaN}
Levels == {"Complete Genome", "Chromosome", "Scaffold", "Contig", NaN}

\* Rows of a frame handed to rank_assemblies (parsed and tagged).
RankRows ==
  [organism_name : {"Zea mays"}, assembly_accession : {"GCA_1", "GCA_2"},
   refseq_category : Categories, assembly_level : Levels,
   ftp_path : {"https://ftp/GCF_1"}, data_source : {"REFSEQ", "GENBANK"}]

InitRank ==
  /\ source = "both"
  /\ clean = FALSE
  /\ remote = [s \in {"refseq", "genbank"} |-> NoFile]
  /\ input_file = <<>>
  /\ local = [s \in {"refseq", "genbank"} |-> NoFile]
  /\ dfs = <<>>
  /\ full_df = <<>>
  /\ target_species = <<>>
  /\ idx = 1
  /\ matches \in SeqsUpTo(RankRows, MaxGroup) \ {<<>>}
  /\ genus_matches = <<>>
  /\ group_df = <<>>
  /\ best = <<>>
  /\ to_download = <<>>
  /\ found_count = 0
  /\ report = <<>>
  /\ script = <<>>
  /\ pc = "rank"
  /\ run = 1
  /\ prev = <<>>

\* Line 140: best = rank_assemblies(matches).
Rank ==
  /\ pc = "rank"
  /\ group_df' = matches
  /\ best' = <<rank_assemblies(matches)>>
  /\ pc' = "ranked"
  /\ UNCHANGED <<source, clean, remote, input_file, local, dfs, full_df,
                 target_species, idx, matches, genus_matches, to_download,
                 found_count, report, script, run, prev>>

NextRank == Rank

SpecRank == InitRank /\ [][NextRank]_vars

----------------------------------------------------------------------------
(* Claims *)

\* The scores as the ranking policy states them.
PolicyCat(v) ==
  IF v = "reference genome" THEN 3
  ELSE IF v = "representative genome" THEN 2
  ELSE IF v = "na" THEN 1 ELSE 0

PolicyLvl(v) ==
  IF v = "Complete Genome" THEN 4
  ELSE IF v = "Chromosome" THEN 3
  ELSE IF v = "Scaffold" THEN 2
  ELSE IF v = "Contig" THEN 1 ELSE 0

PolicySrc(v) == IF v = "REFSEQ" THEN 2 ELSE IF v = "GENBANK" THEN 1 ELSE 0

PolicyQuality(r) == <<PolicyCat(r.refseq_category), PolicyLvl(r.assembly_level)>>

\* <<a1, a2>> is lexicographically greater than <<b1, b2>>.
PairGreater(a, b) == a[1] > b[1] \/ (a[1] = b[1] /\ a[2] > b[2])

\* The 4-tuple of a is lexicographically greater than or equal to that of b
\* (accessions are strings here).
TupleGeq(a, b) ==
  \/ PairGreater(PolicyQuality(a), PolicyQuality(b))
  \/ /\ PolicyQuality(a) = PolicyQuality(b)
     /\ \/ PolicySrc(a.data_source) > PolicySrc(b.data_source)
        \/ /\ PolicySrc(a.data_source) = PolicySrc(b.data_source)
           /\ ~StrLess(Chars(a.assembly_accession), Chars(b.assembly_accession))

----------------------------------------------------------------------------
(* Claims about main *)

Range(f) == {f[i] : i \in DOMAIN f}

\* The orders in which the rows of a frame can stand.
Reorderings(df) ==
  {[i \in 1..Len(df) |-> df[p[i]]] :
     p \in {q \in [1..Len(df) -> 1..Len(df)] : Range(q) = 1..Len(df)}}

\* text begins with the characters of prefix.
StartsWith(text, prefix) ==
  /\ Len(text) >= Len(prefix)
  /\ SubSeq(text, 1, Len(prefix)) = prefix

\* The rows of full_df whose organism_name is the name, byte for byte.
ExactRows(name) ==
  SelectSeq(full_df, LAMBDA r : r.organism_name = name)

\* The rows of full_df whose organism_name begins with the genus of the name
\* and a space, the characters compared literally.
GenusRows(name) ==
  SelectSeq(full_df, LAMBDA r :
    /\ r.organism_name # NaN
    /\ StartsWith(Chars(r.organism_name), first_part(Chars(name)) \o <<" ">>))

GenusLen(name) == Len(first_part(Chars(name)))

\* C2: the row rank_assemblies returns for a frame does not depend on the
\* order of the rows of the frame, also when rows agree on category, level,
\* source and accession and differ elsewhere.
C2_PermutationInvariant ==
  (group_df # <<>> /\ best # <<>>) =>
    \A d \in Reorderings(group_df) : rank_assemblies(d) = best[1]

\* C3: when the fallback has run for a name whose genus is longer than two
\* characters, genus_matches holds exactly the rows whose organism_name begins
\* with the characters of the genus and a space, whatever those characters are.
C3_FallbackIsLiteralPrefix ==
  (pc \in {"match", "report"} /\ idx > 1) =>
    LET name == target_species[idx - 1] IN
      (ExactRows(name) = <<>> /\ GenusLen(name) > 2) =>
        genus_matches = GenusRows(name)

\* a is ranked strictly above b by the policy (accessions are strings here).
PolicyAbove(a, b) == TupleGeq(a, b) /\ ~TupleGeq(b, a)

\* C4: a name with at least one exact row gets EXACT_MATCH and a winner that is
\* a greatest row of the exact rows; the rows that only share the genus have
\* no part in it: over the frame without them the outcome is the same.
C4_ExactMatchPriority ==
  \A k \in 1..Len(to_download) :
    LET name == to_download[k].name
        E == ExactRows(name)
    IN  E # <<>> =>
          /\ to_download[k].status = <<"EXACT_MATCH">>
          /\ \E i \in 1..Len(E) :
               /\ to_download[k] = [name |-> name, source |-> E[i].data_source,
                                    accession |-> E[i].assembly_accession,
                                    url |-> E[i].ftp_path,
                                    status |-> <<"EXACT_MATCH">>,
                                    level |-> E[i].assembly_level]
               /\ \A j \in 1..Len(E) : TupleGeq(E[i], E[j])
          /\ loop_body(E, name).items = <<to_download[k]>>

\* C4 witness: an exact match was resolved while a row of the same genus that
\* is not an exact row outranks every exact row.
C4_Witness ==
  \E k \in 1..Len(to_download) :
    /\ ExactRows(to_download[k].name) # <<>>
    /\ to_download[k].status = <<"EXACT_MATCH">>
    /\ \E i \in 1..Len(full_df) :
         /\ full_df[i].organism_name # to_download[k].name
         /\ InSeq(full_df[i], GenusRows(to_download[k].name))
         /\ \A j \in 1..Len(ExactRows(to_download[k].name)) :
              PolicyAbove(full_df[i], ExactRows(to_download[k].name)[j])

\* C5: a name is NOT_FOUND exactly when it has no exact row and either its
\* genus has at most two characters or no row begins with the genus and a
\* space.
C5_NotFoundExactlyWhen ==
  \A k \in 1..Len(to_download) :
    LET name == to_download[k].name IN
      (to_download[k].status = <<"NOT_FOUND">>)
        <=> /\ ExactRows(name) = <<>>
            /\ (GenusLen(name) <= 2 \/ GenusRows(name) = <<>>)

\* C6: main stops with the no-data error exactly when every requested summary
\* came back empty, and then nothing was resolved or written; otherwise the
\* merged frame is the rows of the loaded frames, in order, each row with the
\* tag of the source it was loaded from.
C6_AllEmptyHalts ==
  pc \notin {"load", "merge"} =>
    /\ (pc = "exit") <=>
         (\A i \in 1..Len(requested(source)) :
            ~remote[requested(source)[i]].ok
              \/ remote[requested(source)[i]].rows = <<>>)
    /\ pc = "exit" =>
         /\ full_df = <<>> /\ target_species = <<>> /\ to_download = <<>>
         /\ report = <<>> /\ script = <<>>
    /\ pc # "exit" =>
         /\ Len(full_df) = Len(remote["refseq"].rows) + Len(remote["genbank"].rows)
         /\ \A i \in 1..Len(full_df) :
              LET n == Len(remote["refseq"].rows)
                  raw == IF i <= n THEN remote["refseq"].rows[i]
                                   ELSE remote["genbank"].rows[i - n]
              IN  /\ full_df[i].data_source = (IF i <= n THEN "REFSEQ" ELSE "GENBANK")
                  /\ full_df[i].organism_name = read_field(raw.organism_name)
                  /\ full_df[i].assembly_accession = read_field(raw.assembly_accession)
                  /\ full_df[i].refseq_category = read_field(raw.refseq_category)
                  /\ full_df[i].assembly_level = read_field(raw.assembly_level)
                  /\ full_df[i].ftp_path = read_field(raw.ftp_path)

\* C6 witness: one of two requested summaries failed to download, the other
\* was loaded, and the merge went on.
C6_Witness ==
  /\ pc = "read"
  /\ source = "both"
  /\ ~remote["refseq"].ok
  /\ Len(full_df) > 0
  /\ \A i \in 1..Len(full_df) : full_df[i].data_source = "GENBANK"

\* C7: once the loop is over, it has not raised, and there is one outcome per
\* name, the k-th outcome bearing the k-th name.
C7_OneOutcomePerName ==
  pc \in {"re_error", "report", "script", "done", "type_error"} =>
    /\ pc # "re_error"
    /\ Len(to_download) = Len(target_species)
    /\ \A k \in 1..Len(to_download) : to_download[k].name = target_species[k]

\* C8: what a name gets depends on the name and the merged frame alone:
\* once the loop is over, every name of the input has the outcome the loop
\* body gives for it over the frame, whatever names stand before or after it.
C8_OutcomeOfNameAlone ==
  pc \in {"re_error", "report", "script", "done", "type_error"} =>
    \A k \in 1..Len(target_species) :
      loop_body(full_df, target_species[k]).items
        = (IF k <= Len(to_download) THEN <<to_download[k]>> ELSE <<>>)

Found == SelectSeq(to_download, LAMBDA o : o.status # <<"NOT_FOUND">>)

\* C10: after the report and the script are written, found_count is the number
\* of outcomes whose status is not NOT_FOUND and the script holds a download
\* entry for exactly those outcomes, whatever their url.
C10_FoundIffNotNotFound ==
  pc \in {"done", "type_error"} =>
    /\ found_count = Len(Found)
    /\ Len(script) = Len(Found)
    /\ \A i \in 1..Len(Found) :
         script[i].name = Found[i].name /\ script[i].accession = Found[i].accession

====
